---- MODULE Spec2Model ----
(***************************************************************************)
(* Model of zenhub (src/src/main.rs): the command line client that reads   *)
(* the current user, the workspace's repositories and, for every requested *)
(* pipeline, the workspace's issues, filters them and prints a report.     *)
(*                                                                         *)
(* Three specifications:                                                   *)
(*   Spec        one execution of main (fetches, loop, output)             *)
(*   SpecFilter  the filter / aggregate / title part of read_issues on an  *)
(*               arbitrary issue list and an arbitrary filter              *)
(*   SpecScope   the repo_ids part of read_issues on an arbitrary          *)
(*               repository list                                           *)
(*                                                                         *)
(* Option<T> is a sequence of length at most one: None is <<>>, Some(v) is *)
(* <<v>>.  A Rust String that the program formats or joins is a sequence   *)
(* of one-character strings; a String that it only compares or copies is  *)
(* a TLA+ string.  An f32 estimate is a natural number (every value used   *)
(* is a small integer, which f32 adds exactly).                            *)
(***************************************************************************)
EXTENDS Naturals, Sequences, FiniteSets

VARIABLES
    pc,            \* position of the thread of control
    pipelines,     \* opt.pipeline
    resp_user,     \* Option: resp_user.github.username
    repositories,  \* the repository list bound in main / given to read_issues
    idx,           \* number of iterations of main's for loop already started
    requests,      \* requests sent so far and their outcomes
    ids_seq,       \* read_issues: ids.iter(), the order the HashSet yields its elements
    ids_str,       \* read_issues: ids_str
    res,           \* read_issues: the decoded issue list
    filter,        \* read_issues: the filter argument
    info,          \* Option: the ZenhubPipelineInfo read_issues returned and
                   \* display_issues printed, until read_issues is called again
    stdout         \* what has been printed

vars == <<pc, pipelines, resp_user, repositories, idx, requests, ids_seq, ids_str,
          res, filter, info, stdout>>

----------------------------------------------------------------------------
(* Bounds *)

MaxPipelines == 2
MaxRepos == 2
MaxFetched == 2
MaxIssues == 2
MaxScopeRepos == 3

Logins == {"alice", "bob"}
PipelineNames == {"Backlog", "Done"}
Estimates == {0, 2}
RepoIds == {10, 20}
ScopeRepoIds == {7, 10, 20}

None == <<>>
Some(v) == <<v>>
Option(S) == {None} \cup {Some(v) : v \in S}

BoundedSeq(S, n) == UNION {[1..k -> S] : k \in 0..n}

Range(s) == {s[i] : i \in DOMAIN s}

----------------------------------------------------------------------------
(* Data *)

ZenhubRepository == [gh_id : RepoIds]
ScopeRepository == [gh_id : ScopeRepoIds]

ZenhubIssueInfo ==
    [assignee : Option(Logins),
     assignees : {<<>>, <<"alice">>},
     estimate : Option(Estimates),
     pipeline : Option(PipelineNames)]

\* The issues a response of a run is made of: in the Backlog and assigned, with every
\* estimate, and two more that lack the pipeline or the assignee.  (SpecFilter takes the
\* issues from all of ZenhubIssueInfo.)
ServerIssues ==
    {x \in ZenhubIssueInfo :
        /\ x.assignees = <<>>
        /\ \/ x.assignee # None /\ x.pipeline = Some("Backlog")
           \/ x.assignee = None /\ x.pipeline = Some("Backlog") /\ x.estimate = Some(2)
           \/ x.assignee = Some("alice") /\ x.pipeline = None /\ x.estimate = Some(2)}

ZenhubIssuesFilter ==
    [by_assignee : Option(Logins), by_pipeline_name : Option(PipelineNames)]

----------------------------------------------------------------------------
(* format!("{}", n) of an unsigned integer, and join(",") *)

Digit(d) == <<"0", "1", "2", "3", "4", "5", "6", "7", "8", "9">>[d + 1]

RECURSIVE Format(_)
Format(n) == IF n < 10 THEN <<Digit(n)>> ELSE Append(Format(n \div 10), Digit(n % 10))

RECURSIVE Join(_, _)
Join(strs, sep) ==
    IF strs = <<>> THEN <<>>
    ELSE IF Len(strs) = 1 THEN strs[1]
    ELSE strs[1] \o <<sep>> \o Join(Tail(strs), sep)

\* repositories.iter().map(|x| format!("{}", x.gh_id))
FormattedIds(repos) == [i \in DOMAIN repos |-> Format(repos[i].gh_id)]

\* The mutant: the ids are collected into a Vec, which keeps duplicates.
VecIterations(strs) == {strs}

\* collect::<HashSet<_>>() followed by ids.iter(): the set holds each string once and
\* yields its elements in an order that depends on the keys of its hasher; a HashSet gets
\* fresh keys when it is built, so every order is possible at every call.
HashSetIterations(strs) ==
    LET S == Range(strs)
        n == Cardinality(S)
    IN {s \in [1..n -> S] : \A i, j \in 1..n : s[i] = s[j] => i = j}

----------------------------------------------------------------------------
(* read_issues: the filter closure, the accumulators, the title *)

\* The mutant: an issue with no assignee leaves m as it was.
MatchesAbsentKept(x, f) ==
    LET m1 == IF f.by_assignee # None
              THEN IF x.assignee # None THEN x.assignee[1] = f.by_assignee[1] ELSE TRUE
              ELSE TRUE
        m2 == IF f.by_pipeline_name # None
              THEN IF x.pipeline # None THEN m1 /\ (x.pipeline[1] = f.by_pipeline_name[1])
                   ELSE FALSE
              ELSE m1
    IN m2

\* the value of m at the end of the closure
Matches(x, f) ==
    LET m0 == TRUE
        m1 == IF f.by_assignee # None
              THEN IF x.assignee # None THEN m0 /\ (x.assignee[1] = f.by_assignee[1])
                   ELSE FALSE
              ELSE m0
        m2 == IF f.by_pipeline_name # None
              THEN IF x.pipeline # None THEN m1 /\ (x.pipeline[1] = f.by_pipeline_name[1])
                   ELSE FALSE
              ELSE m1
    IN m2

\* The mutant: the estimate is accumulated before m is looked at.
AccumulateAlways(acc, x, m) ==
    IF x.estimate # None
    THEN [acc EXCEPT !.estimate = @ + x.estimate[1]]
    ELSE [acc EXCEPT !.not_estimated = @ + 1]

\* the accumulators after the closure has run on x
Accumulate(acc, x, m) ==
    IF m
    THEN IF x.estimate # None
         THEN [acc EXCEPT !.estimate = @ + x.estimate[1]]
         ELSE [acc EXCEPT !.not_estimated = @ + 1]
    ELSE acc

\* The mutant: the kept issues are collected in reverse.
CollectFront(list, x, m) == IF m THEN <<x>> \o list ELSE list

\* filter(..).collect(): x is kept, after those kept before it, when the closure returns true
Collect(list, x, m) == IF m THEN Append(list, x) ELSE list

RECURSIVE FilterFrom(_, _, _, _)
FilterFrom(issues, f, k, acc) ==
    IF k > Len(issues) THEN acc
    ELSE LET x == issues[k]
             m == Matches(x, f)
             a == Accumulate(acc, x, m)
         IN FilterFrom(issues, f, k + 1, [a EXCEPT !.list = Collect(@, x, m)])

\* The mutant: the pipeline name becomes the title only when an issue matched.
TitleIfMatched(f, filtered) ==
    IF f.by_pipeline_name # None /\ filtered # <<>> THEN f.by_pipeline_name[1] ELSE "Issues"

Title(f, filtered) ==
    IF f.by_pipeline_name # None THEN f.by_pipeline_name[1] ELSE "Issues"

\* the Ok value of read_issues, given the decoded response
PipelineInfo(issues, f) ==
    LET acc == FilterFrom(issues, f, 1, [list |-> <<>>, estimate |-> 0, not_estimated |-> 0])
    IN [title |-> Title(f, acc.list),
        list |-> acc.list,
        estimate |-> acc.estimate,
        not_estimated |-> acc.not_estimated]

----------------------------------------------------------------------------
(* display_issues *)

\* stdout keeps one entry for each block display_issues prints: the title of the block's
\* header line.  The numbers of the header and the lines under it are those of info, the
\* value display_issues is given.
DisplayIssues(p) == [kind |-> "report", title |-> p.title]

----------------------------------------------------------------------------
(* main *)

NoFilter == [by_assignee |-> None, by_pipeline_name |-> None]

\* one entry of requests: what was sent (for an issue request: the arguments of the
\* read_issues call and the repo_ids it put in the url) or how the request ended
Event(op, ev, f, repos, ids) ==
    [op |-> op, ev |-> ev, filter |-> f, repositories |-> repos, repo_ids |-> ids]

Sent(op) == Event(op, "send", NoFilter, <<>>, <<>>)
Ended(op, ev) == Event(op, ev, NoFilter, <<>>, <<>>)

\* println!("User\t{}\t{}", ..)
UserLine(username) == [kind |-> "user", title |-> username]

\* The mutant: the loop takes the requested names from the last to the first.
PipelineFromEnd(names, started) == names[Len(names) - started]

\* for p in pipelines: the name of the iteration that follows `started` iterations
PipelineAt(names, started) == names[started + 1]

\* The mutant: the filter carries no assignee.
FilterOfAnyone(username, p) == [by_assignee |-> None, by_pipeline_name |-> Some(p)]

\* the filter main builds for the pipeline name p
FilterOf(username, p) == [by_assignee |-> username, by_pipeline_name |-> Some(p)]

Init ==
    /\ pc = "start"
    /\ pipelines \in BoundedSeq(PipelineNames, MaxPipelines)
    /\ resp_user = None
    /\ repositories = <<>>
    /\ idx = 0
    /\ requests = <<>>
    /\ ids_seq = <<>>
    /\ ids_str = <<>>
    /\ res = <<>>
    /\ filter = NoFilter
    /\ info = None
    /\ stdout = <<>>

\* read_user(..): the request is sent
ReadUserSend ==
    /\ pc = "start"
    /\ pc' = "read_user"
    /\ requests' = Append(requests, Sent("user"))
    /\ UNCHANGED <<pipelines, resp_user, repositories, idx, ids_seq, ids_str, res, filter,
                   info, stdout>>

\* read_user(..).await.unwrap() on Ok, and the println of the user
ReadUserOk ==
    /\ pc = "read_user"
    /\ \E u \in Logins :
         /\ resp_user' = Some(u)
         /\ stdout' = Append(stdout, UserLine(u))
    /\ pc' = "user_read"
    /\ requests' = Append(requests, Ended("user", "ok"))
    /\ UNCHANGED <<pipelines, repositories, idx, ids_seq, ids_str, res, filter, info>>

\* read_user(..).await.unwrap() on Err: panic
ReadUserErr ==
    /\ pc = "read_user"
    /\ pc' = "panicked"
    /\ requests' = Append(requests, Ended("user", "err"))
    /\ UNCHANGED <<pipelines, resp_user, repositories, idx, ids_seq, ids_str, res, filter,
                   info, stdout>>

\* read_repositories(..): the request is sent
ReadRepositoriesSend ==
    /\ pc = "user_read"
    /\ pc' = "read_repositories"
    /\ requests' = Append(requests, Sent("repositories"))
    /\ UNCHANGED <<pipelines, resp_user, repositories, idx, ids_seq, ids_str, res, filter,
                   info, stdout>>

\* read_repositories(..).await.unwrap() on Ok
ReadRepositoriesOk ==
    /\ pc = "read_repositories"
    /\ repositories' \in BoundedSeq(ZenhubRepository, MaxRepos)
    /\ pc' = "loop"
    /\ requests' = Append(requests, Ended("repositories", "ok"))
    /\ UNCHANGED <<pipelines, resp_user, idx, ids_seq, ids_str, res, filter, info, stdout>>

\* The mutant: a failed repository request leaves an empty list (unwrap_or_default).
ReadRepositoriesErrDefault ==
    /\ pc = "read_repositories"
    /\ repositories' = <<>>
    /\ pc' = "loop"
    /\ requests' = Append(requests, Ended("repositories", "err"))
    /\ UNCHANGED <<pipelines, resp_user, idx, ids_seq, ids_str, res, filter, info, stdout>>

\* read_repositories(..).await.unwrap() on Err: panic
ReadRepositoriesErr ==
    /\ pc = "read_repositories"
    /\ pc' = "panicked"
    /\ requests' = Append(requests, Ended("repositories", "err"))
    /\ UNCHANGED <<pipelines, resp_user, repositories, idx, ids_seq, ids_str, res, filter,
                   info, stdout>>

\* One more iteration of the loop, up to the request of read_issues: the filter is
\* built, the ids are collected and joined, the url is formed and the request sent.
ReadIssuesSend ==
    /\ pc = "loop"
    /\ idx < Len(pipelines)
    /\ idx' = idx + 1
    /\ filter' = FilterOf(resp_user, PipelineAt(pipelines, idx))
    /\ ids_seq' \in HashSetIterations(FormattedIds(repositories))
    /\ ids_str' = Join(ids_seq', ",")
    /\ requests' = Append(requests, Event("issues", "send", filter', repositories, ids_str'))
    /\ info' = None
    /\ pc' = "read_issues"
    /\ UNCHANGED <<pipelines, resp_user, repositories, res, stdout>>

\* The response decodes: the rest of read_issues, then display_issues.  res is a local
\* of read_issues, gone when it returns.
ReadIssuesOk ==
    /\ pc = "read_issues"
    /\ \E r \in BoundedSeq(ServerIssues, MaxFetched) :
         LET p == PipelineInfo(r, filter)
         IN /\ info' = Some(p)
            /\ stdout' = Append(stdout, DisplayIssues(p))
    /\ requests' = Append(requests, Ended("issues", "ok"))
    /\ pc' = "loop"
    /\ UNCHANGED <<pipelines, resp_user, repositories, idx, ids_seq, ids_str, res, filter>>

\* The mutant: the error is dropped and the loop goes on.
ReadIssuesErrContinue ==
    /\ pc = "read_issues"
    /\ pc' = "loop"
    /\ requests' = Append(requests, Ended("issues", "err"))
    /\ UNCHANGED <<pipelines, resp_user, repositories, idx, ids_seq, ids_str, res, filter,
                   info, stdout>>

\* .await? on Err: main returns the error
ReadIssuesErr ==
    /\ pc = "read_issues"
    /\ pc' = "failed"
    /\ requests' = Append(requests, Ended("issues", "err"))
    /\ UNCHANGED <<pipelines, resp_user, repositories, idx, ids_seq, ids_str, res, filter,
                   info, stdout>>

\* the loop is exhausted: Ok(())
Finish ==
    /\ pc = "loop"
    /\ idx = Len(pipelines)
    /\ pc' = "done"
    /\ UNCHANGED <<pipelines, resp_user, repositories, idx, requests, ids_seq, ids_str, res,
                   filter, info, stdout>>

Next ==
    \/ ReadUserSend
    \/ ReadUserOk
    \/ ReadUserErr
    \/ ReadRepositoriesSend
    \/ ReadRepositoriesOk
    \/ ReadRepositoriesErr
    \/ ReadIssuesSend
    \/ ReadIssuesOk
    \/ ReadIssuesErr
    \/ Finish

Spec == Init /\ [][Next]_vars

----------------------------------------------------------------------------
(* read_issues from the decoded response on: any issue list, any filter *)

InitFilter ==
    /\ pc = "decoded"
    /\ res \in BoundedSeq(ZenhubIssueInfo, MaxIssues)
    /\ filter \in ZenhubIssuesFilter
    /\ info = None
    /\ pipelines = <<>>
    /\ resp_user = None
    /\ repositories = <<>>
    /\ idx = 0
    /\ requests = <<>>
    /\ ids_seq = <<>>
    /\ ids_str = <<>>
    /\ stdout = <<>>

FilterIssues ==
    /\ pc = "decoded"
    /\ info' = Some(PipelineInfo(res, filter))
    /\ pc' = "returned"
    /\ UNCHANGED <<pipelines, resp_user, repositories, idx, requests, ids_seq, ids_str, res,
                   filter, stdout>>

NextFilter == FilterIssues

SpecFilter == InitFilter /\ [][NextFilter]_vars

----------------------------------------------------------------------------
(* read_issues up to ids_str: any repository list *)

InitScope ==
    /\ pc = "called"
    /\ repositories \in BoundedSeq(ScopeRepository, MaxScopeRepos)
    /\ ids_seq = <<>>
    /\ ids_str = <<>>
    /\ pipelines = <<>>
    /\ resp_user = None
    /\ idx = 0
    /\ requests = <<>>
    /\ res = <<>>
    /\ filter = NoFilter
    /\ info = None
    /\ stdout = <<>>

BuildScope ==
    /\ pc = "called"
    /\ ids_seq' \in HashSetIterations(FormattedIds(repositories))
    /\ ids_str' = Join(ids_seq', ",")
    /\ pc' = "joined"
    /\ UNCHANGED <<pipelines, resp_user, repositories, idx, requests, res, filter, info,
                   stdout>>

NextScope == BuildScope

SpecScope == InitScope /\ [][NextScope]_vars

----------------------------------------------------------------------------
(* Properties *)

IsIssueSend(e) == e.op = "issues" /\ e.ev = "send"
IsReport(l) == l.kind = "report"

\* the issue requests sent so far, and the report blocks printed so far, in order
IssueSends == SelectSeq(requests, IsIssueSend)
Reports == SelectSeq(stdout, IsReport)

Count(op, ev) == Cardinality({i \in DOMAIN requests : requests[i].op = op /\ requests[i].ev = ev})

\* the filter as the specification words it: every predicate that is supplied holds
Keeps(x, f) ==
    /\ f.by_assignee # None => (x.assignee # None /\ x.assignee[1] = f.by_assignee[1])
    /\ f.by_pipeline_name # None => (x.pipeline # None /\ x.pipeline[1] = f.by_pipeline_name[1])

KeepsUnderFilter(x) == Keeps(x, filter)

RECURSIVE SumEstimates(_)
SumEstimates(list) ==
    IF list = <<>> THEN 0
    ELSE (IF Head(list).estimate # None THEN Head(list).estimate[1] ELSE 0)
         + SumEstimates(Tail(list))

Estimated(list) == {i \in DOMAIN list : list[i].estimate # None}
Unestimated(list) == {i \in DOMAIN list : list[i].estimate = None}

\* C1: read_issues keeps an issue if and only if every supplied predicate holds of it:
\* with by_assignee, the assignee field is present and its login is by_assignee; with
\* by_pipeline_name, the pipeline field is present and its name is by_pipeline_name.  The
\* assignees list plays no part.
C1_KeptIffAllPredicatesHold ==
    info # None =>
        \A i \in DOMAIN res : (res[i] \in Range(info[1].list)) <=> Keeps(res[i], filter)

\* an issue with no assignee but "alice" in its assignees list is dropped by a filter on
\* "alice", next to an issue that is kept
C1_Witness ==
    /\ info # None
    /\ filter.by_assignee = Some("alice")
    /\ \E i, j \in DOMAIN res :
         /\ res[i].assignee = None
         /\ res[i].assignees = <<"alice">>
         /\ res[i] \notin Range(info[1].list)
         /\ res[j] \in Range(info[1].list)

\* C2: in every report of a run, estimate is the sum of the estimates present in the
\* matched list, not_estimated is the number of matched issues without an estimate, the
\* length of the list is the number with an estimate plus not_estimated, and the list
\* holds matching issues only.
C2_AggregatesOfMatched ==
    info # None =>
        LET p == info[1]
        IN /\ \A i \in DOMAIN p.list : Keeps(p.list[i], filter)
           /\ p.estimate = SumEstimates(p.list)
           /\ p.not_estimated = Cardinality(Unestimated(p.list))
           /\ Len(p.list) = Cardinality(Estimated(p.list)) + p.not_estimated

\* the second report of a run, of two matched issues: one with the estimate 0, which
\* counts as estimated, and one without an estimate
C2_Witness ==
    /\ info # None
    /\ idx = 2
    /\ \E i, j \in DOMAIN info[1].list :
         /\ info[1].list[i].estimate = Some(0)
         /\ info[1].list[j].estimate = None
    /\ info[1].not_estimated = 1
    /\ Cardinality(Estimated(info[1].list)) = 1

\* C3: the matched list is the subsequence of the fetched list made of the matching
\* issues, in the order of the fetched list; with an empty filter it is the fetched list.
C3_MatchedIsSubsequenceInOrder ==
    info # None =>
        /\ info[1].list = SelectSeq(res, KeepsUnderFilter)
        /\ (filter = NoFilter => info[1].list = res)

\* two different issues are both kept by a filter that drops others, in their order
C3_Witness ==
    /\ info # None
    /\ filter.by_assignee # None
    /\ Len(res) = 2
    /\ res[1] # res[2]
    /\ info[1].list = res

\* C4: for a non-empty repository list, the ids read_issues puts in repo_ids hold no id
\* twice, are as many as the distinct gh_id values, and are the ids of the list.
C4_ScopeIsTheDistinctIds ==
    (pc = "joined" /\ repositories # <<>>) =>
        LET gh == {repositories[i].gh_id : i \in DOMAIN repositories}
        IN /\ \A i, j \in DOMAIN ids_seq : ids_seq[i] = ids_seq[j] => i = j
           /\ Len(ids_seq) = Cardinality(gh)
           /\ Range(ids_seq) = {Format(g) : g \in gh}

\* the repositories 10, 10, 20
C4_Witness ==
    /\ pc = "joined"
    /\ repositories = <<[gh_id |-> 10], [gh_id |-> 10], [gh_id |-> 20]>>
    /\ Len(ids_seq) = 2

\* C5: once the user request or the repository request has failed, the run is over: it
\* is the last request, no issue request was or is sent and no report is printed.
C5_EarlyFailureAborts ==
    \A i \in DOMAIN requests :
        (requests[i].op \in {"user", "repositories"} /\ requests[i].ev = "err") =>
            /\ i = Len(requests)
            /\ pc = "panicked"
            /\ IssueSends = <<>>
            /\ Reports = <<>>

\* the repository request failed with two pipelines requested
C5_Witness ==
    /\ pc = "panicked"
    /\ Len(pipelines) = 2
    /\ Count("repositories", "err") = 1

\* C6, as claimed: a run that got its user and its repositories ends only after an issue
\* request was sent for every requested pipeline, a failed one included.
C6_RemainingPipelinesStillFetched ==
    pc \in {"done", "failed"} => Len(IssueSends) = Len(pipelines)

\* C6, amended: a failed issue request ends the run: it is the last request, main
\* returns the error, and the reports printed are those of the requests before it.
C6_IssueFailureEndsRun ==
    \A i \in DOMAIN requests :
        (requests[i].op = "issues" /\ requests[i].ev = "err") =>
            /\ i = Len(requests)
            /\ pc = "failed"
            /\ Len(IssueSends) = idx
            /\ Len(Reports) = idx - 1
            /\ Len(Reports) = Count("issues", "ok")

\* the first of two issue requests failed; the second pipeline is left out
C6_Witness ==
    /\ pc = "failed"
    /\ Len(pipelines) = 2
    /\ idx = 1
    /\ Reports = <<>>

\* C7: the reports printed so far are those of the first requested names, in the order
\* requested, each from the request made for its name; a run that ends without a failure
\* has printed one report for every requested name; with no name, nothing is fetched.
C7_OneReportPerPipelineInOrder ==
    /\ Len(Reports) <= Len(IssueSends)
    /\ Len(IssueSends) <= Len(pipelines)
    /\ \A i \in DOMAIN IssueSends : IssueSends[i].filter.by_pipeline_name = Some(pipelines[i])
    /\ \A i \in DOMAIN Reports : Reports[i].title = pipelines[i]
    /\ pc = "done" => (Len(Reports) = Len(pipelines) /\ Len(IssueSends) = Len(pipelines))

\* a finished run with two different names
C7_Witness ==
    /\ pc = "done"
    /\ Len(pipelines) = 2
    /\ pipelines[1] # pipelines[2]
    /\ Len(Reports) = 2

\* C8: the title is by_pipeline_name when it is present and "Issues" when it is not,
\* whatever matched.
C8_TitleFromFilter ==
    info # None =>
        /\ filter.by_pipeline_name # None => Some(info[1].title) = filter.by_pipeline_name
        /\ filter.by_pipeline_name = None => info[1].title = "Issues"

\* a pipeline name is given and no issue of a non-empty list matches
C8_Witness ==
    /\ info # None
    /\ filter.by_pipeline_name = Some("Done")
    /\ res # <<>>
    /\ info[1].list = <<>>
    /\ info[1].title = "Done"

\* C9, as claimed: all issue requests of a run carry the same repo_ids string.
C9_SameScopeStringInEveryRequest ==
    \A i, j \in DOMAIN IssueSends : IssueSends[i].repo_ids = IssueSends[j].repo_ids

\* C10: the user is requested once, then the repositories once, then the issues; a
\* request is answered before the next is sent; every read_issues call is given the
\* login of the user request as by_assignee and the repositories of the repository
\* request.
C10_SequentialFetches ==
    /\ Count("user", "send") = (IF pc = "start" THEN 0 ELSE 1)
    /\ Count("repositories", "send") = (IF pc \in {"start", "read_user", "user_read"} \/ Count("user", "err") = 1 THEN 0 ELSE 1)
    /\ \A i \in DOMAIN requests :
         /\ (requests[i].ev = "send" /\ i < Len(requests)) =>
                (requests[i + 1].op = requests[i].op /\ requests[i + 1].ev \in {"ok", "err"})
         /\ requests[i].ev \in {"ok", "err"} =>
                (i > 1 /\ requests[i - 1].op = requests[i].op /\ requests[i - 1].ev = "send")
         /\ (requests[i].op = "repositories" /\ requests[i].ev = "send") =>
                (i = 3 /\ requests[2].op = "user" /\ requests[2].ev = "ok")
         /\ (requests[i].op = "issues" /\ requests[i].ev = "send") =>
                (i > 4 /\ requests[4].op = "repositories" /\ requests[4].ev = "ok")
    /\ \A i \in DOMAIN IssueSends :
         /\ resp_user # None
         /\ IssueSends[i].filter.by_assignee = resp_user
         /\ IssueSends[i].repositories = repositories

\* a finished run of two issue requests
C10_Witness ==
    /\ pc = "done"
    /\ Len(IssueSends) = 2
    /\ Len(requests) = 8

====
